---- MODULE Spec2Model ----
(***************************************************************************)
(* PRESENT-80 block cipher of crypto-on-raspberrypi: the scalar            *)
(* implementation (src/unnamed/part_000) and the bit-sliced one            *)
(* (src/present_bs/crypto.c).                                              *)
(*                                                                         *)
(* Byte buffers are functions from a zero-based index to 0..255, as the C  *)
(* arrays are.  A bit-sliced register (bs_reg_t) is a natural number of    *)
(* BITSLICE_WIDTH bits.  crypto.h is not among the sources: the sizes it   *)
(* defines are taken from the specification's section 6.                   *)
(***************************************************************************)
EXTENDS Naturals, Sequences, FiniteSets

VARIABLES
    key0,      \* the initial 80-bit key both strategies are called with
    blocks,    \* the BITSLICE_WIDTH plaintext blocks, blocks[j] = block of lane j
    strategy,  \* which crypto_func is running: "bitsliced" or "scalar"
    lane,      \* the lane whose block the scalar crypto_func encrypts
    pc,        \* position inside the running crypto_func
    i,         \* crypto_func's loop counter
    pt,        \* scalar crypto_func: the 8-byte buffer pt
    key,       \* scalar crypto_func: the 10-byte key register
    pt_bs,     \* bit-sliced crypto_func: the 8*BITSLICE_WIDTH-byte buffer pt
    key_bs,    \* bit-sliced crypto_func: the 10-byte key register
    state,     \* bit-sliced crypto_func: the 64 bit-planes
    calls      \* the calls the running crypto_func has made, <<function, i>>

vars == <<key0, blocks, strategy, lane, pc, i, pt, key, pt_bs, key_bs, state, calls>>

(***************************************************************************)
(* Sizes (crypto.h) and bounds of the model.                               *)
(***************************************************************************)
CRYPTO_IN_SIZE == 8
CRYPTO_KEY_SIZE == 10
CRYPTO_IN_SIZE_BIT == 64
\* Number of parallel lanes; also the number of bits of a bs_reg_t.
BITSLICE_WIDTH == 2
\* Number of rounds of the for loops of both crypto_func.
ROUNDS == 31
\* How many different keys and plaintext blocks the callers choose from.
NumKeys == 2
NumBlocks == 2

(***************************************************************************)
(* C's operators on unsigned values.                                       *)
(***************************************************************************)
RECURSIVE Xor(_, _)
Xor(a, b) ==
    IF a = 0 THEN b
    ELSE IF b = 0 THEN a
    ELSE ((a + b) % 2) + 2 * Xor(a \div 2, b \div 2)

RECURSIVE And(_, _)
And(a, b) ==
    IF a = 0 \/ b = 0 THEN 0
    ELSE ((a % 2) * (b % 2)) + 2 * And(a \div 2, b \div 2)

RECURSIVE Or(_, _)
Or(a, b) ==
    IF a = 0 THEN b
    ELSE IF b = 0 THEN a
    ELSE (IF a % 2 = 1 \/ b % 2 = 1 THEN 1 ELSE 0) + 2 * Or(a \div 2, b \div 2)

Shr(v, n) == v \div (2 ^ n)
Shl(v, n) == v * (2 ^ n)
\* A store into a uint8_t keeps the low 8 bits.
U8(v) == v % 256
\* A store into a bs_reg_t keeps the register's bits.
BsReg(v) == v % (2 ^ BITSLICE_WIDTH)

(***************************************************************************)
(* Scalar implementation, src/unnamed/part_000.                            *)
(***************************************************************************)
getbit(v, bit) == And(Shr(v, bit), 1)

\* Mutant: the value is not shifted to its bit position.
cpybit_unshifted(v, bit, bitv) ==
    LET mask == 255 - U8(Shl(1, bit))
        v1 == And(v, mask)
    IN  U8(Or(v1, bitv))

cpybit(v, bit, bitv) ==
    LET mask == 255 - U8(Shl(1, bit))
        v1 == And(v, mask)
    IN  U8(Or(v1, Shl(bitv, bit)))

add_round_key(p, roundkey) ==
    [n \in 0..7 |-> U8(Xor(p[n], roundkey[n]))]

sbox ==
    [v \in 0..15 |-> <<12, 5, 6, 11, 9, 0, 10, 13, 3, 14, 15, 8, 4, 7, 1, 2>>[v + 1]]

sbox_layer(s) ==
    [n \in 0..7 |->
        LET ln == And(s[n], 15)
            un == Shr(s[n], 4)
        IN  U8(Or(sbox[ln], Shl(sbox[un], 4)))]

\* Mutant: the inverse wiring.
pbox_out_inverse(b) == (b % 16) * 4 + (b \div 16)

\* The permuted position of bit b.
pbox_out(b) == (b \div 4) + (b % 4) * 16

RECURSIVE pbox_loop(_, _, _)
pbox_loop(s, state_out, b) ==
    IF b < 64
    THEN LET val == getbit(s[b \div 8], b % 8)
             out == pbox_out(b)
         IN  pbox_loop(s,
                       [state_out EXCEPT ![out \div 8] = cpybit(@, out % 8, val)],
                       b + 1)
    ELSE state_out

pbox_layer(s) == pbox_loop(s, [n \in 0..7 |-> 0], 0)

\* Mutant: the upper part is shifted by 4 instead of 5.
key_rotate_shift4(k) ==
    [n \in 0..9 |-> U8(Or(Shr(k[(n + 2) % 10], 3), Shl(k[(n + 3) % 10], 4)))]

\* update_round_key, first step: the byte-wise shifts.
key_rotate(k) ==
    LET tmp2 == k[2]
        tmp1 == k[1]
        tmp0 == k[0]
        k0 == [k  EXCEPT ![0] = U8(Or(Shr(k[2], 3),  Shl(k[3], 5)))]
        k1 == [k0 EXCEPT ![1] = U8(Or(Shr(k0[3], 3), Shl(k0[4], 5)))]
        k2 == [k1 EXCEPT ![2] = U8(Or(Shr(k1[4], 3), Shl(k1[5], 5)))]
        k3 == [k2 EXCEPT ![3] = U8(Or(Shr(k2[5], 3), Shl(k2[6], 5)))]
        k4 == [k3 EXCEPT ![4] = U8(Or(Shr(k3[6], 3), Shl(k3[7], 5)))]
        k5 == [k4 EXCEPT ![5] = U8(Or(Shr(k4[7], 3), Shl(k4[8], 5)))]
        k6 == [k5 EXCEPT ![6] = U8(Or(Shr(k5[8], 3), Shl(k5[9], 5)))]
        k7 == [k6 EXCEPT ![7] = U8(Or(Shr(k6[9], 3), Shl(tmp0, 5)))]
        k8 == [k7 EXCEPT ![8] = U8(Or(Shr(tmp0, 3),  Shl(tmp1, 5)))]
    IN  [k8 EXCEPT ![9] = U8(Or(Shr(tmp1, 3), Shl(tmp2, 5)))]

\* update_round_key, second step: the sbox lookup on the top nibble.
key_sbox(k) ==
    LET tmp == sbox[Shr(k[9], 4)]
        k9 == And(k[9], 15)
    IN  [k EXCEPT ![9] = U8(Or(k9, Shl(tmp, 4)))]

\* Mutant: the counter's low bit lands one position too low.
key_counter_shift6(k, r) ==
    LET k1 == [k EXCEPT ![1] = U8(Xor(k[1], Shl(r, 6)))]
    IN  [k1 EXCEPT ![2] = U8(Xor(k1[2], Shr(r, 1)))]

\* update_round_key, last step: the round counter.
key_counter(k, r) ==
    LET k1 == [k EXCEPT ![1] = U8(Xor(k[1], Shl(r, 7)))]
    IN  [k1 EXCEPT ![2] = U8(Xor(k1[2], Shr(r, 1)))]

update_round_key(k, r) == key_counter(key_sbox(key_rotate(k)), r)

\* Mutant: key instead of key + 2.
roundkey_low(k) == [n \in 0..7 |-> k[n]]

\* key + 2: the eight bytes of the register from byte 2 on.
roundkey_of(k) == [n \in 0..7 |-> k[n + 2]]

(***************************************************************************)
(* Bit-sliced implementation, src/present_bs/crypto.c.                     *)
(***************************************************************************)
\* 0xFFFFFFFF held in a bs_reg_t: every bit of the register set.
BS_INV == (2 ^ BITSLICE_WIDTH) - 1

\* Mutant: the lane stride of 8 bytes is missing.
RECURSIVE enslice_loop_stride1(_, _, _, _)
enslice_loop_stride1(p, n, temp, bit) ==
    IF bit < BITSLICE_WIDTH
    THEN enslice_loop_stride1(p, n,
                      BsReg(Or(temp, Shl(And(Shr(p[n \div 8 + bit], n % 8), 1), bit))),
                      bit + 1)
    ELSE temp

RECURSIVE enslice_loop(_, _, _, _)
enslice_loop(p, n, temp, bit) ==
    IF bit < BITSLICE_WIDTH
    THEN enslice_loop(p, n,
                      BsReg(Or(temp, Shl(And(Shr(p[n \div 8 + bit * 8], n % 8), 1), bit))),
                      bit + 1)
    ELSE temp

enslice(p) ==
    [n \in 0..(CRYPTO_IN_SIZE_BIT - 1) |-> enslice_loop(p, n, 0, 0)]

RECURSIVE unslice_loop(_, _, _, _)
unslice_loop(state_bs, n, temp, bit) ==
    IF bit < 8
    THEN unslice_loop(state_bs, n,
                      U8(Or(temp,
                            Shl(And(Shr(state_bs[((n * 8) % CRYPTO_IN_SIZE_BIT) + bit],
                                        n \div 8), 1), bit))),
                      bit + 1)
    ELSE temp

unslice(state_bs) ==
    [n \in 0..(CRYPTO_IN_SIZE * BITSLICE_WIDTH - 1) |-> unslice_loop(state_bs, n, 0, 0)]

sbox0(x0, x1, x2, x3) ==
    BsReg(Xor(Xor(Xor(x0, And(x1, x2)), x2), x3))

\* Mutant: the term x0 & c is missing.
sbox1_dropped_term(x0, x1, x2, x3) ==
    LET c == And(x2, x3)
    IN  BsReg(Xor(Xor(Xor(Xor(And(And(x0, x1), Xor(x2, x3)), And(x3, x1)), x1), c), x3))

sbox1(x0, x1, x2, x3) ==
    LET c == And(x2, x3)
    IN  BsReg(Xor(Xor(Xor(Xor(Xor(And(And(x0, x1), Xor(x2, x3)), And(x3, x1)), x1),
                          And(x0, c)), c), x3))

\* Mutant: the negation is missing.
sbox2_not_inverted(x0, x1, x2, x3) ==
    LET c == And(x0, x3)
    IN  BsReg(Xor(Xor(Xor(Xor(Xor(Xor(And(x0, x1), And(c, x1)), And(x3, x1)), x2),
                          c), And(c, x2)), x3))

sbox2(x0, x1, x2, x3) ==
    LET c == And(x0, x3)
    IN  BsReg(Xor(Xor(Xor(Xor(Xor(Xor(Xor(And(x0, x1), And(c, x1)), And(x3, x1)), x2),
                                  c), And(c, x2)), x3), BS_INV))

sbox3(x0, x1, x2, x3) ==
    LET c == And(x1, x2)
    IN  BsReg(Xor(Xor(Xor(Xor(Xor(Xor(And(c, x0), And(And(x3, x0), Xor(x1, x2))), x0),
                              x1), c), x3), BS_INV))

bs_add_round_key(state_bs, roundkey) ==
    [bit \in 0..(CRYPTO_IN_SIZE_BIT - 1) |->
        LET key_bit == And(Shr(roundkey[bit \div CRYPTO_IN_SIZE], bit % CRYPTO_IN_SIZE), 1)
        IN  BsReg(Xor(state_bs[bit], IF key_bit # 0 THEN (2 ^ BITSLICE_WIDTH) - 1 ELSE 0))]

bs_sbox_layer(state_bs) ==
    [n \in 0..(CRYPTO_IN_SIZE_BIT - 1) |->
        LET g == n \div 4
            in0 == state_bs[g * 4 + 0]
            in1 == state_bs[g * 4 + 1]
            in2 == state_bs[g * 4 + 2]
            in3 == state_bs[g * 4 + 3]
        IN  CASE n % 4 = 0 -> sbox0(in0, in1, in2, in3)
              [] n % 4 = 1 -> sbox1(in0, in1, in2, in3)
              [] n % 4 = 2 -> sbox2(in0, in1, in2, in3)
              [] OTHER     -> sbox3(in0, in1, in2, in3)]

\* The permuted position of plane bit.
bs_pbox_out(bit) == (bit \div 4) + (bit % 4) * 16

RECURSIVE bs_pbox_loop(_, _, _)
bs_pbox_loop(state_bs, state_out, bit) ==
    IF bit < CRYPTO_IN_SIZE_BIT
    THEN bs_pbox_loop(state_bs,
                      [state_out EXCEPT ![bs_pbox_out(bit)] = state_bs[bit]],
                      bit + 1)
    ELSE state_out

bs_pbox_layer(state_bs) ==
    bs_pbox_loop(state_bs, [n \in 0..(CRYPTO_IN_SIZE_BIT - 1) |-> 0], 0)

bs_sbox ==
    [v \in 0..15 |-> <<12, 5, 6, 11, 9, 0, 10, 13, 3, 14, 15, 8, 4, 7, 1, 2>>[v + 1]]

bs_key_rotate(k) ==
    LET tmp2 == k[2]
        tmp1 == k[1]
        tmp0 == k[0]
        k0 == [k  EXCEPT ![0] = U8(Or(Shr(k[2], 3),  Shl(k[3], 5)))]
        k1 == [k0 EXCEPT ![1] = U8(Or(Shr(k0[3], 3), Shl(k0[4], 5)))]
        k2 == [k1 EXCEPT ![2] = U8(Or(Shr(k1[4], 3), Shl(k1[5], 5)))]
        k3 == [k2 EXCEPT ![3] = U8(Or(Shr(k2[5], 3), Shl(k2[6], 5)))]
        k4 == [k3 EXCEPT ![4] = U8(Or(Shr(k3[6], 3), Shl(k3[7], 5)))]
        k5 == [k4 EXCEPT ![5] = U8(Or(Shr(k4[7], 3), Shl(k4[8], 5)))]
        k6 == [k5 EXCEPT ![6] = U8(Or(Shr(k5[8], 3), Shl(k5[9], 5)))]
        k7 == [k6 EXCEPT ![7] = U8(Or(Shr(k6[9], 3), Shl(tmp0, 5)))]
        k8 == [k7 EXCEPT ![8] = U8(Or(Shr(tmp0, 3),  Shl(tmp1, 5)))]
    IN  [k8 EXCEPT ![9] = U8(Or(Shr(tmp1, 3), Shl(tmp2, 5)))]

bs_key_sbox(k) ==
    LET tmp == bs_sbox[Shr(k[9], 4)]
        k9 == And(k[9], 15)
    IN  [k EXCEPT ![9] = U8(Or(k9, Shl(tmp, 4)))]

bs_key_counter(k, r) ==
    LET k1 == [k EXCEPT ![1] = U8(Xor(k[1], Shl(r, 7)))]
    IN  [k1 EXCEPT ![2] = U8(Xor(k1[2], Shr(r, 1)))]

bs_update_round_key(k, r) == bs_key_counter(bs_key_sbox(bs_key_rotate(k)), r)

\* key + 2, as the bit-sliced crypto_func passes it.
bs_roundkey_of(k) == [n \in 0..(CRYPTO_IN_SIZE - 1) |-> k[n + 2]]

\* Bit n (0 or 1) of the natural number v.
BitAt(v, n) == (v \div (2 ^ n)) % 2

(***************************************************************************)
(* The callers' inputs.                                                    *)
(***************************************************************************)
\* Key 0 is the all-zero key.
KeyInput(k) == [n \in 0..(CRYPTO_KEY_SIZE - 1) |-> (k * (17 * n + 255)) % 256]
\* Block 0 is the all-zero block.
BlockInput(b) == [n \in 0..(CRYPTO_IN_SIZE - 1) |-> (b * (29 * n + 85)) % 256]

Lanes == 0..(BITSLICE_WIDTH - 1)
ZeroBlock == [n \in 0..(CRYPTO_IN_SIZE - 1) |-> 0]
ZeroKey == [n \in 0..(CRYPTO_KEY_SIZE - 1) |-> 0]
ZeroState == [n \in 0..(CRYPTO_IN_SIZE_BIT - 1) |-> 0]
\* The bit-sliced buffer: block j at bytes 8j..8j+7.
Concat(bl) ==
    [n \in 0..(CRYPTO_IN_SIZE * BITSLICE_WIDTH - 1) |->
        bl[n \div CRYPTO_IN_SIZE][n % CRYPTO_IN_SIZE]]

(***************************************************************************)
(* The round orchestrators.  The caller runs the bit-sliced crypto_func on *)
(* all blocks, then the scalar crypto_func on each block in turn, every    *)
(* call with a fresh copy of the same key.                                 *)
(***************************************************************************)
Init ==
    /\ key0 \in {KeyInput(k) : k \in 0..(NumKeys - 1)}
    /\ blocks \in [Lanes -> {BlockInput(b) : b \in 0..(NumBlocks - 1)}]
    /\ strategy = "bitsliced"
    /\ lane = 0
    /\ pc = "enslice"
    /\ i = 1
    /\ pt = ZeroBlock
    /\ key = ZeroKey
    /\ pt_bs = Concat(blocks)
    /\ key_bs = key0
    /\ state = ZeroState
    /\ calls = << >>

\* src/present_bs/crypto.c, crypto_func
Bs_enslice ==
    /\ strategy = "bitsliced" /\ pc = "enslice"
    /\ state' = enslice(pt_bs)
    /\ i' = 1
    /\ pc' = "add_round_key"
    /\ calls' = Append(calls, <<"enslice", 0>>)
    /\ UNCHANGED <<key0, blocks, strategy, lane, pt, key, pt_bs, key_bs>>

Bs_add_round_key ==
    /\ strategy = "bitsliced" /\ pc = "add_round_key" /\ i <= ROUNDS
    /\ state' = bs_add_round_key(state, bs_roundkey_of(key_bs))
    /\ pc' = "sbox_layer"
    /\ calls' = Append(calls, <<"add_round_key", i>>)
    /\ UNCHANGED <<key0, blocks, strategy, lane, i, pt, key, pt_bs, key_bs>>

Bs_sbox_layer ==
    /\ strategy = "bitsliced" /\ pc = "sbox_layer"
    /\ state' = bs_sbox_layer(state)
    /\ pc' = "pbox_layer"
    /\ calls' = Append(calls, <<"sbox_layer", i>>)
    /\ UNCHANGED <<key0, blocks, strategy, lane, i, pt, key, pt_bs, key_bs>>

\* Mutant: the round loop does not call update_round_key.
Bs_pbox_layer_no_key_update ==
    /\ strategy = "bitsliced" /\ pc = "pbox_layer"
    /\ state' = bs_pbox_layer(state)
    /\ i' = i + 1
    /\ pc' = "add_round_key"
    /\ calls' = Append(calls, <<"pbox_layer", i>>)
    /\ UNCHANGED <<key0, blocks, strategy, lane, pt, key, pt_bs, key_bs>>

Bs_pbox_layer ==
    /\ strategy = "bitsliced" /\ pc = "pbox_layer"
    /\ state' = bs_pbox_layer(state)
    /\ pc' = "update_round_key"
    /\ calls' = Append(calls, <<"pbox_layer", i>>)
    /\ UNCHANGED <<key0, blocks, strategy, lane, i, pt, key, pt_bs, key_bs>>

Bs_update_round_key ==
    /\ strategy = "bitsliced" /\ pc = "update_round_key"
    /\ key_bs' = bs_update_round_key(key_bs, i)
    /\ i' = i + 1
    /\ pc' = "add_round_key"
    /\ calls' = Append(calls, <<"update_round_key", i>>)
    /\ UNCHANGED <<key0, blocks, strategy, lane, pt, key, pt_bs, state>>

Bs_final_add_round_key ==
    /\ strategy = "bitsliced" /\ pc = "add_round_key" /\ ~(i <= ROUNDS)
    /\ state' = bs_add_round_key(state, bs_roundkey_of(key_bs))
    /\ pc' = "unslice"
    /\ calls' = Append(calls, <<"add_round_key", i>>)
    /\ UNCHANGED <<key0, blocks, strategy, lane, i, pt, key, pt_bs, key_bs>>

Bs_unslice ==
    /\ strategy = "bitsliced" /\ pc = "unslice"
    /\ pt_bs' = unslice(state)
    /\ pc' = "return"
    /\ calls' = Append(calls, <<"unslice", 0>>)
    /\ UNCHANGED <<key0, blocks, strategy, lane, i, pt, key, key_bs, state>>

\* src/unnamed/part_000, crypto_func
\* Mutant: the operands are swapped, the state is XORed into the round key.
Scalar_add_round_key_into_key ==
    /\ strategy = "scalar" /\ pc = "add_round_key" /\ i <= ROUNDS
    /\ key' = [n \in 0..9 |-> IF n < 2 THEN key[n] ELSE U8(Xor(key[n], pt[n - 2]))]
    /\ pc' = "sbox_layer"
    /\ calls' = Append(calls, <<"add_round_key", i>>)
    /\ UNCHANGED <<key0, blocks, strategy, lane, i, pt, pt_bs, key_bs, state>>

Scalar_add_round_key ==
    /\ strategy = "scalar" /\ pc = "add_round_key" /\ i <= ROUNDS
    /\ pt' = add_round_key(pt, roundkey_of(key))
    /\ pc' = "sbox_layer"
    /\ calls' = Append(calls, <<"add_round_key", i>>)
    /\ UNCHANGED <<key0, blocks, strategy, lane, i, key, pt_bs, key_bs, state>>

Scalar_sbox_layer ==
    /\ strategy = "scalar" /\ pc = "sbox_layer"
    /\ pt' = sbox_layer(pt)
    /\ pc' = "pbox_layer"
    /\ calls' = Append(calls, <<"sbox_layer", i>>)
    /\ UNCHANGED <<key0, blocks, strategy, lane, i, key, pt_bs, key_bs, state>>

Scalar_pbox_layer ==
    /\ strategy = "scalar" /\ pc = "pbox_layer"
    /\ pt' = pbox_layer(pt)
    /\ pc' = "update_round_key"
    /\ calls' = Append(calls, <<"pbox_layer", i>>)
    /\ UNCHANGED <<key0, blocks, strategy, lane, i, key, pt_bs, key_bs, state>>

Scalar_update_round_key ==
    /\ strategy = "scalar" /\ pc = "update_round_key"
    /\ key' = update_round_key(key, i)
    /\ i' = i + 1
    /\ pc' = "add_round_key"
    /\ calls' = Append(calls, <<"update_round_key", i>>)
    /\ UNCHANGED <<key0, blocks, strategy, lane, pt, pt_bs, key_bs, state>>

Scalar_final_add_round_key ==
    /\ strategy = "scalar" /\ pc = "add_round_key" /\ ~(i <= ROUNDS)
    /\ pt' = add_round_key(pt, roundkey_of(key))
    /\ pc' = "return"
    /\ calls' = Append(calls, <<"add_round_key", i>>)
    /\ UNCHANGED <<key0, blocks, strategy, lane, i, key, pt_bs, key_bs, state>>

\* The caller: after a call returns, the scalar crypto_func is entered with the
\* next lane's block and a copy of the initial key.
CallScalar ==
    /\ pc = "return"
    /\ \/ strategy = "bitsliced" /\ lane' = 0
       \/ strategy = "scalar" /\ lane + 1 < BITSLICE_WIDTH /\ lane' = lane + 1
    /\ strategy' = "scalar"
    /\ pt' = blocks[lane']
    /\ key' = key0
    /\ i' = 1
    /\ pc' = "add_round_key"
    /\ calls' = << >>
    /\ UNCHANGED <<key0, blocks, pt_bs, key_bs, state>>

Next ==
    \/ Bs_enslice
    \/ Bs_add_round_key
    \/ Bs_sbox_layer
    \/ Bs_pbox_layer
    \/ Bs_update_round_key
    \/ Bs_final_add_round_key
    \/ Bs_unslice
    \/ Scalar_add_round_key
    \/ Scalar_sbox_layer
    \/ Scalar_pbox_layer
    \/ Scalar_update_round_key
    \/ Scalar_final_add_round_key
    \/ CallScalar

Spec == Init /\ [][Next]_vars

(***************************************************************************)
(* The functions on their own.  Each specification below enters one        *)
(* function of the sources with inputs of its own and steps through it;    *)
(* the variables it does not use keep the values of Idle.                  *)
(***************************************************************************)
ZeroBuffer == [n \in 0..(CRYPTO_IN_SIZE * BITSLICE_WIDTH - 1) |-> 0]
Idle(used) ==
    /\ "key0" \in used \/ key0 = ZeroKey
    /\ blocks = [j \in Lanes |-> ZeroBlock]
    /\ lane = 0
    /\ "i" \in used \/ i = 1
    /\ "pt" \in used \/ pt = ZeroBlock
    /\ "key" \in used \/ key = ZeroKey
    /\ "pt_bs" \in used \/ pt_bs = ZeroBuffer
    /\ "key_bs" \in used \/ key_bs = ZeroKey
    /\ "state" \in used \/ state = ZeroState
    /\ calls = << >>

\* Inputs with one bit set, and with all bits but one set.
OneHotBytes(len, t) == [n \in 0..(len - 1) |-> IF n = t \div 8 THEN 2 ^ (t % 8) ELSE 0]
AllButOneBytes(len, t) == [n \in 0..(len - 1) |-> 255 - OneHotBytes(len, t)[n]]
OneHotPlanes(t, v) == [n \in 0..(CRYPTO_IN_SIZE_BIT - 1) |-> IF n = t THEN v ELSE 0]
AllButOnePlanes(t, v) ==
    [n \in 0..(CRYPTO_IN_SIZE_BIT - 1) |-> ((2 ^ BITSLICE_WIDTH) - 1) - OneHotPlanes(t, v)[n]]

\* update_round_key of both sources, one step at a time on the same register.
KeyTests ==
    {OneHotBytes(CRYPTO_KEY_SIZE, t) : t \in 0..(8 * CRYPTO_KEY_SIZE - 1)}
        \cup {AllButOneBytes(CRYPTO_KEY_SIZE, t) : t \in 0..(8 * CRYPTO_KEY_SIZE - 1)}
        \cup {KeyInput(k) : k \in 0..(NumKeys - 1)}

InitKey ==
    /\ key0 \in KeyTests
    /\ key = key0
    /\ key_bs = key0
    /\ i \in 1..ROUNDS
    /\ strategy = "update_round_key"
    /\ pc = "key_rotate"
    /\ Idle({"key0", "key", "key_bs", "i"})

Key_rotate ==
    /\ strategy = "update_round_key" /\ pc = "key_rotate"
    /\ key' = key_rotate(key)
    /\ key_bs' = bs_key_rotate(key_bs)
    /\ pc' = "key_sbox"
    /\ UNCHANGED <<key0, blocks, strategy, lane, i, pt, pt_bs, state, calls>>

Key_sbox ==
    /\ strategy = "update_round_key" /\ pc = "key_sbox"
    /\ key' = key_sbox(key)
    /\ key_bs' = bs_key_sbox(key_bs)
    /\ pc' = "key_counter"
    /\ UNCHANGED <<key0, blocks, strategy, lane, i, pt, pt_bs, state, calls>>

Key_counter ==
    /\ strategy = "update_round_key" /\ pc = "key_counter"
    /\ key' = key_counter(key, i)
    /\ key_bs' = bs_key_counter(key_bs, i)
    /\ pc' = "return"
    /\ UNCHANGED <<key0, blocks, strategy, lane, i, pt, pt_bs, state, calls>>

NextKey == Key_rotate \/ Key_sbox \/ Key_counter

SpecKey == InitKey /\ [][NextKey]_vars

\* enslice then unslice of a byte buffer, and unslice then enslice of bit-planes.
BufferTests ==
    {OneHotBytes(CRYPTO_IN_SIZE * BITSLICE_WIDTH, t) :
        t \in 0..(8 * CRYPTO_IN_SIZE * BITSLICE_WIDTH - 1)}
        \cup {AllButOneBytes(CRYPTO_IN_SIZE * BITSLICE_WIDTH, t) :
                t \in 0..(8 * CRYPTO_IN_SIZE * BITSLICE_WIDTH - 1)}
        \cup {Concat([j \in Lanes |-> BlockInput((b + j) % (NumBlocks + 1))]) :
                b \in 0..NumBlocks}

PlaneTests ==
    {OneHotPlanes(t, v) : t \in 0..(CRYPTO_IN_SIZE_BIT - 1), v \in 1..((2 ^ BITSLICE_WIDTH) - 1)}
        \cup {AllButOnePlanes(t, v) :
                t \in 0..(CRYPTO_IN_SIZE_BIT - 1), v \in 1..((2 ^ BITSLICE_WIDTH) - 1)}
        \cup {enslice(x) : x \in {Concat([j \in Lanes |-> BlockInput(b + j)]) : b \in 1..NumBlocks}}

InitSlice ==
    /\ \/ /\ strategy = "enslice_unslice"
          /\ pc = "enslice"
          /\ pt_bs \in BufferTests
          /\ state = ZeroState
       \/ /\ strategy = "unslice_enslice"
          /\ pc = "unslice"
          /\ state \in PlaneTests
          /\ pt_bs = ZeroBuffer
    /\ Idle({"pt_bs", "state"})

Slice_enslice ==
    /\ strategy \in {"enslice_unslice", "unslice_enslice"} /\ pc = "enslice"
    /\ state' = enslice(pt_bs)
    /\ pc' = IF strategy = "enslice_unslice" THEN "unslice" ELSE "return"
    /\ UNCHANGED <<key0, blocks, strategy, lane, i, pt, key, pt_bs, key_bs, calls>>

Slice_unslice ==
    /\ strategy \in {"enslice_unslice", "unslice_enslice"} /\ pc = "unslice"
    /\ pt_bs' = unslice(state)
    /\ pc' = IF strategy = "unslice_enslice" THEN "enslice" ELSE "return"
    /\ UNCHANGED <<key0, blocks, strategy, lane, i, pt, key, key_bs, state, calls>>

NextSlice == Slice_enslice \/ Slice_unslice

SpecSlice == InitSlice /\ [][NextSlice]_vars

\* Both sbox_layer on the same blocks: lane j holds, at nibble position g, the
\* value (v[j] + g) mod 16; the scalar sbox_layer gets the block of lane 0.
RECURSIVE PackLanes(_, _, _)
PackLanes(v, n, j) ==
    IF j < BITSLICE_WIDTH
    THEN BitAt((v[j] + n \div 4) % 16, n % 4) * (2 ^ j) + PackLanes(v, n, j + 1)
    ELSE 0

InitSbox ==
    /\ \E v \in [Lanes -> 0..15] :
          /\ state = [n \in 0..(CRYPTO_IN_SIZE_BIT - 1) |-> PackLanes(v, n, 0)]
          /\ pt = [n \in 0..(CRYPTO_IN_SIZE - 1) |->
                      ((v[0] + 2 * n) % 16) + 16 * ((v[0] + 2 * n + 1) % 16)]
    /\ strategy = "sbox_layer"
    /\ pc = "sbox_layer"
    /\ Idle({"pt", "state"})

Sbox_apply ==
    /\ strategy = "sbox_layer" /\ pc = "sbox_layer"
    /\ state' = bs_sbox_layer(state)
    /\ pt' = sbox_layer(pt)
    /\ pc' = "return"
    /\ UNCHANGED <<key0, blocks, strategy, lane, i, key, pt_bs, key_bs, calls>>

NextSbox == Sbox_apply

SpecSbox == InitSbox /\ [][NextSbox]_vars

\* Both pbox_layer on states with one bit (one plane) set, or all but one.
InitPbox ==
    /\ \E t \in 0..(CRYPTO_IN_SIZE_BIT - 1) : \E v \in 1..((2 ^ BITSLICE_WIDTH) - 1) :
          \/ /\ pt = OneHotBytes(CRYPTO_IN_SIZE, t)
             /\ state = OneHotPlanes(t, v)
          \/ /\ pt = AllButOneBytes(CRYPTO_IN_SIZE, t)
             /\ state = AllButOnePlanes(t, v)
    /\ strategy = "pbox_layer"
    /\ pc = "pbox_layer"
    /\ Idle({"pt", "state"})

Pbox_apply ==
    /\ strategy = "pbox_layer" /\ pc = "pbox_layer"
    /\ state' = bs_pbox_layer(state)
    /\ pt' = pbox_layer(pt)
    /\ pc' = "return"
    /\ UNCHANGED <<key0, blocks, strategy, lane, i, key, pt_bs, key_bs, calls>>

NextPbox == Pbox_apply

SpecPbox == InitPbox /\ [][NextPbox]_vars

(***************************************************************************)
(* Notation of the properties.                                             *)
(***************************************************************************)
\* Bit n of a byte buffer read as one register, bit 0 = least significant bit
\* of byte 0.
RegBit(buf, n) == BitAt(buf[n \div 8], n % 8)
\* The key register after its first n schedule steps, counters 1..n.
RECURSIVE KeyAfter(_, _)
KeyAfter(k, n) ==
    IF n = 0 THEN k
    ELSE CHOOSE x \in {update_round_key(prev, n) : prev \in {KeyAfter(k, n - 1)}} : TRUE
\* The calls of the round loop and the final key mixing, in order.
RoundFn == <<"add_round_key", "sbox_layer", "pbox_layer", "update_round_key">>
ExpectedCalls ==
    [n \in 1..(4 * ROUNDS + 1) |->
        IF n = 4 * ROUNDS + 1
        THEN <<"add_round_key", ROUNDS + 1>>
        ELSE <<RoundFn[((n - 1) % 4) + 1], ((n - 1) \div 4) + 1>>]
IsRoundCall(c) == c[1] \notin {"enslice", "unslice"}
RoundCalls == SelectSeq(calls, IsRoundCall)
CountCalls(fn) == Cardinality({n \in 1..Len(calls) : calls[n][1] = fn})
Returned == pc = "return"

\* C1: for every key and blocks, lane j of the bit-sliced result (bytes
\* 8j..8j+7) is the ciphertext the scalar crypto_func produces for block j
\* alone under the same initial key.
C1_BitslicedEqualsScalar ==
    (strategy = "scalar" /\ Returned)
        => \A n \in 0..(CRYPTO_IN_SIZE - 1) : pt_bs[CRYPTO_IN_SIZE * lane + n] = pt[n]

C1_Witness ==
    /\ strategy = "scalar" /\ Returned /\ lane = BITSLICE_WIDTH - 1
    /\ blocks[0] # blocks[lane]
    /\ key0 # ZeroKey
    /\ pt # blocks[lane]

\* C2: the all-zero key and the all-zero plaintext give the published
\* PRESENT-80 ciphertext 0x5579C1387B228445, pt[7] = 0x55 down to pt[0] = 0x45.
C2_KnownAnswer ==
    (strategy = "scalar" /\ Returned /\ key0 = ZeroKey /\ blocks[lane] = ZeroBlock)
        => pt = [n \in 0..7 |-> <<69, 132, 34, 123, 56, 193, 121, 85>>[n + 1]]

C2_Witness ==
    /\ strategy = "scalar" /\ Returned /\ key0 = ZeroKey /\ blocks[lane] = ZeroBlock
    /\ pt[7] = 85

\* C6: in one crypto_func call the round loop calls add_round_key, sbox_layer,
\* pbox_layer, update_round_key in this order for i = 1, 2, ..., 31, then
\* add_round_key once more and nothing else; update_round_key is called 31
\* times and on return the key register is the initial key advanced 31 times.
C6_RoundOrder ==
    /\ Len(RoundCalls) <= 4 * ROUNDS + 1
    /\ \A n \in 1..Len(RoundCalls) : RoundCalls[n] = ExpectedCalls[n]
    /\ Returned =>
          /\ Len(RoundCalls) = 4 * ROUNDS + 1
          /\ CountCalls("update_round_key") = ROUNDS
          /\ CountCalls("add_round_key") = ROUNDS + 1
          /\ CountCalls("sbox_layer") = ROUNDS
          /\ CountCalls("pbox_layer") = ROUNDS
          /\ (IF strategy = "scalar" THEN key ELSE key_bs) = KeyAfter(key0, ROUNDS)

C6_Witness ==
    /\ strategy = "scalar" /\ Returned
    /\ Len(calls) = 4 * ROUNDS + 1
    /\ calls[4 * ROUNDS] = <<"update_round_key", ROUNDS>>
    /\ key # key0

\* C7 as claimed: the round key mixed in is bytes 0..7 of the key register.
C7_MixesLowBytes ==
    [][pc = "add_round_key" =>
         IF strategy = "scalar"
         THEN \A n \in 0..7 : pt'[n] = Xor(pt[n], key[n])
         ELSE \A b \in 0..63 : \A j \in Lanes :
                 BitAt(state'[b], j) = (BitAt(state[b], j) + RegBit(key_bs, b)) % 2]_vars

\* C7 amended: in every round and in the final key mixing, the round key mixed
\* into the block state is bytes 2..9 of the key register (its bits 16..79) at
\* the time of mixing; bytes 0 and 1 are never mixed into the state.
C7_MixesHighBytes ==
    [][pc = "add_round_key" =>
         IF strategy = "scalar"
         THEN \A n \in 0..7 : pt'[n] = Xor(pt[n], key[n + 2])
         ELSE \A b \in 0..63 : \A j \in Lanes :
                 BitAt(state'[b], j) = (BitAt(state[b], j) + RegBit(key_bs, b + 16)) % 2]_vars

C7_Witness ==
    /\ strategy = "scalar" /\ Returned
    /\ \E n \in 0..7 : key[n] # key[n + 2]
    /\ key_bs[0] # key_bs[2]

\* C10: the key register depends on the initial key only: in both strategies
\* and whatever the plaintexts, after every round it is the initial key
\* advanced by the rounds done so far, so the scalar calls on the single
\* blocks and the bit-sliced call on all of them leave the same key.
C10_KeyIndependentOfPlaintext ==
    /\ strategy = "bitsliced" => key_bs = KeyAfter(key0, i - 1)
    /\ strategy = "scalar" => key = KeyAfter(key0, i - 1)
    /\ (strategy = "scalar" /\ Returned) => key = key_bs

C10_Witness ==
    /\ strategy = "scalar" /\ Returned /\ lane > 0
    /\ blocks[lane] # blocks[0]
    /\ key = key_bs /\ key # key0

\* The nibble lane j holds at nibble position g of the bit-planes.
NibbleAt(st, g, j) ==
    BitAt(st[4 * g], j) + 2 * BitAt(st[4 * g + 1], j)
        + 4 * BitAt(st[4 * g + 2], j) + 8 * BitAt(st[4 * g + 3], j)
\* Nibble g of a scalar block: the low nibble of byte 0 is nibble 0.
NibbleOf(s, g) == (s[g \div 2] \div (IF g % 2 = 0 THEN 1 ELSE 16)) % 16
\* The table of the specification, {C,5,6,B,9,0,A,D,3,E,F,8,4,7,1,2}.
SboxTable == <<12, 5, 6, 11, 9, 0, 10, 13, 3, 14, 15, 8, 4, 7, 1, 2>>
\* The permutation of the specification.
Pi(b) == (b \div 4) + (b % 4) * 16

\* C3: unslice(enslice(x)) = x for every byte buffer x, enslice(unslice(y)) = y
\* for all bit-planes y, and enslice puts bit (n mod 8) of byte (n div 8) + 8j
\* at bit j of plane n.
C3_SliceRoundTrip ==
    [][/\ (strategy = "enslice_unslice" /\ pc = "unslice") => pt_bs' = pt_bs
       /\ (strategy = "unslice_enslice" /\ pc = "enslice") => state' = state
       /\ pc = "enslice" =>
             \A n \in 0..(CRYPTO_IN_SIZE_BIT - 1) : \A j \in Lanes :
                 BitAt(state'[n], j) = BitAt(pt_bs[(n \div 8) + 8 * j], n % 8)]_vars

C3_Witness ==
    /\ strategy = "enslice_unslice" /\ Returned
    /\ pt_bs = OneHotBytes(CRYPTO_IN_SIZE * BITSLICE_WIDTH, 8 * CRYPTO_IN_SIZE * BITSLICE_WIDTH - 3)
    /\ state[61] = 2 ^ (BITSLICE_WIDTH - 1)

\* C4: in every lane and at every nibble position, the nibble formed from
\* sbox0..sbox3 of the four input planes is the table's entry for the input
\* nibble, so the bit-sliced sbox_layer does to every nibble of a lane what the
\* scalar sbox_layer does to the nibbles of a block.
C4_SboxFunctionsMatchTable ==
    [][(strategy = "sbox_layer" /\ pc = "sbox_layer") =>
          /\ \A j \in Lanes :
                LET x0 == state[0]
                    x1 == state[1]
                    x2 == state[2]
                    x3 == state[3]
                IN  BitAt(sbox0(x0, x1, x2, x3), j) + 2 * BitAt(sbox1(x0, x1, x2, x3), j)
                        + 4 * BitAt(sbox2(x0, x1, x2, x3), j)
                        + 8 * BitAt(sbox3(x0, x1, x2, x3), j)
                    = SboxTable[NibbleAt(state, 0, j) + 1]
          /\ \A g \in 0..15 : \A j \in Lanes :
                NibbleAt(state', g, j) = SboxTable[NibbleAt(state, g, j) + 1]
          /\ \A g \in 0..15 :
                /\ NibbleOf(pt', g) = SboxTable[NibbleOf(pt, g) + 1]
                /\ NibbleOf(pt', g) = NibbleAt(state', g, 0)]_vars

C4_Witness ==
    /\ strategy = "sbox_layer" /\ Returned
    /\ NibbleAt(state, 3, 0) = 11
    /\ NibbleAt(state, 3, BITSLICE_WIDTH - 1) = 2
    /\ NibbleOf(pt, 3) = 11

\* C5: pi(b) = (b div 4) + (b mod 4) * 16 is a bijection on 0..63, each scratch
\* position is written by exactly one b, and after pbox_layer (scalar and
\* bit-sliced) position pi(b) holds what position b held before.
C5_PboxIsBijection ==
    [][(strategy = "pbox_layer" /\ pc = "pbox_layer") =>
          /\ \A q \in 0..63 :
                /\ Cardinality({b \in 0..63 : pbox_out(b) = q}) = 1
                /\ Cardinality({b \in 0..63 : bs_pbox_out(b) = q}) = 1
          /\ \A b \in 0..63 :
                /\ pbox_out(b) = Pi(b)
                /\ bs_pbox_out(b) = Pi(b)
                /\ RegBit(pt', Pi(b)) = RegBit(pt, b)
                /\ state'[Pi(b)] = state[b]]_vars

C5_Witness ==
    /\ strategy = "pbox_layer" /\ Returned
    /\ pt = OneHotBytes(CRYPTO_IN_SIZE, 49)
    /\ state = OneHotPlanes(49, (2 ^ BITSLICE_WIDTH) - 1)

\* C8 as claimed: the byte-wise shifts rotate the register right by 61 bits,
\* bit n of the result is bit (n + 61) mod 80 of the register before.
C8_RotatesRightBy61 ==
    [][(strategy = "update_round_key" /\ pc = "key_rotate") =>
          \A n \in 0..79 :
              /\ RegBit(key', n) = RegBit(key, (n + 61) % 80)
              /\ RegBit(key_bs', n) = RegBit(key_bs, (n + 61) % 80)]_vars

\* C8 amended: the byte-wise shifts rotate the register right by 19 bits,
\* equivalently left by 61: bit n of the result is bit (n + 19) mod 80 of the
\* register before, for every n and every key.
C8_RotatesRightBy19 ==
    [][(strategy = "update_round_key" /\ pc = "key_rotate") =>
          \A n \in 0..79 :
              /\ RegBit(key', n) = RegBit(key, (n + 19) % 80)
              /\ RegBit(key_bs', n) = RegBit(key_bs, (n + 19) % 80)]_vars

C8_Witness ==
    /\ strategy = "update_round_key" /\ pc = "key_sbox"
    /\ key0 = OneHotBytes(CRYPTO_KEY_SIZE, 0)
    /\ key = OneHotBytes(CRYPTO_KEY_SIZE, 61)
    /\ key_bs = key

\* C9: for every counter r in 1..31 the last step XORs bit 0 of r into register
\* bit 15 (top bit of key[1]) and bits 4..1 of r into bits 19..16 (low four
\* bits of key[2]), and changes no other bit of the register.
C9_CounterIntoBits15To19 ==
    [][(strategy = "update_round_key" /\ pc = "key_counter") =>
          \A n \in 0..79 :
              LET rbit == IF n \in 15..19 THEN BitAt(i, n - 15) ELSE 0
              IN  /\ RegBit(key', n) = (RegBit(key, n) + rbit) % 2
                  /\ RegBit(key_bs', n) = (RegBit(key_bs, n) + rbit) % 2]_vars

C9_Witness ==
    /\ strategy = "update_round_key" /\ Returned
    /\ key0 = ZeroKey /\ i = 21
    /\ key[1] = 128 /\ key[2] = 10 /\ key[9] = 192
    /\ key_bs = key

====
